---- MODULE Spec2Model ----
(***************************************************************************)
(* Model of jmt_profile/cli.py: main() verifies that every GPX file        *)
(* exists, parse_gpx_files() folds the points of all files into one list   *)
(* of ElevationPoints with a cumulative distance, main() groups them by    *)
(* day and plots one coloured area per day.                                *)
(*                                                                         *)
(* Numbers.  A coordinate is a position in metres along a meridian, so     *)
(* distance_2d is the absolute difference.  A distance in km is kept in    *)
(* fixed point with one decimal (5 stands for 0.5 km).  A plotted value    *)
(* is a rational [num, den], so that x * 0.621371 is exact.                *)
(***************************************************************************)
EXTENDS Integers, Sequences, FiniteSets

VARIABLES
    gpx_files,         \* args.gpx_files: the state of each path on disk
    imperial,          \* args.imperial
    pc,                \* position of main: "verify", "parse", "plot", "exit"
    day,               \* parse_gpx_files: index of the next file of enumerate()
    total_distance,    \* parse_gpx_files: running total (km, fixed point)
    prev_point,        \* parse_gpx_files: <<>> is None, <<p>> is the point p
    elevation_points,  \* parse_gpx_files: the list being built
    epoints,           \* main: the list parse_gpx_files returned
    daily_points,      \* main: dict day -> list of ElevationPoint
    lut_size,          \* main: size the colour ramp was built with (-1: none)
    plotted,           \* main: one record per iteration of the render loop
    exit_status,       \* value main returned (-1: it has not returned)
    raised,            \* exception that left main ("none" if none did)
    reported,          \* index of the file "does not exist" was printed for
    opened,            \* history: indices of the files open() was called on
    decoded            \* history: per decoded file, its points in file order

vars == <<gpx_files, imperial, pc, day, total_distance, prev_point,
          elevation_points, epoints, daily_points, lut_size, plotted,
          exit_status, raised, reported, opened, decoded>>

----------------------------------------------------------------------------
(* Bounds of the model. *)

(* Most files on the command line. *)
MaxFiles == 3

(* Most track points read in one run, over all files. *)
MaxPoints == 4

(* The two track points of the model: A, and B 500 m north of A. *)
Points == {[pos |-> 0, elevation |-> 1000], [pos |-> 500, elevation |-> 1200]}

FileStates == {"missing", "undecodable", "gpx"}

(* Conversion factors of the render loop, as millionths and           *)
(* hundred-thousandths.                                                *)
KmToMiles == 621371

MilesDen == 1000000

MetresToFeet == 328084

FeetDen == 100000

----------------------------------------------------------------------------
(* Sequences. *)

RECURSIVE Concat(_)
Concat(ss) == IF ss = <<>> THEN <<>> ELSE Head(ss) \o Concat(Tail(ss))

SeqsUpTo(S, lens) == UNION {[1..n -> S] : n \in lens}

(* What gpxpy.parse can return: a document is a sequence of tracks, a     *)
(* track a sequence of segments, a segment a sequence of points.  The     *)
(* model takes documents of up to two tracks of up to two segments; an    *)
(* empty segment or an empty track is modelled where it stands alone      *)
(* (beside others it only adds a loop of lines 37-39 that runs zero       *)
(* times).  The sets are indexed by the number of points they hold.       *)
Segments == [k \in 0..MaxPoints |-> [1..k -> Points]]

Tracks ==
    [k \in 0..MaxPoints |->
        IF k = 0 THEN {<<>>, << <<>> >>}
        ELSE {<<s>> : s \in Segments[k]}
             \cup UNION {{<<s1, s2>> : s1 \in Segments[i], s2 \in Segments[k - i]} :
                           i \in 1..(k - 1)}]

GpxDocs ==
    [k \in 0..MaxPoints |->
        {<<t>> : t \in Tracks[k]}
        \cup (IF k = 0 THEN {<<>>} ELSE {})
        \cup UNION {{<<t1, t2>> : t1 \in Tracks[i], t2 \in Tracks[k - i]} :
                      i \in 1..(k - 1)}]

(* The documents of at most n points. *)
GpxDocsUpTo == [n \in 0..MaxPoints |-> UNION {GpxDocs[k] : k \in 0..n}]

TrackPoints(t) == Concat(t)

RECURSIVE FilePoints(_)
FilePoints(gpx) ==
    IF gpx = <<>> THEN <<>> ELSE TrackPoints(Head(gpx)) \o FilePoints(Tail(gpx))

----------------------------------------------------------------------------
(* parse_gpx_files *)

Abs(n) == IF n < 0 THEN -n ELSE n

distance_2d(p, q) == Abs(p.pos - q.pos)

(* d / 1000.0, the result in tenths of a km *)
MetresToKm(d) == (d * 10) \div 1000

ElevationPoint(d, dist, ele) == [day |-> d, distance |-> dist, elevation |-> ele]

(* Variants of AccumulatePoint with a fault planted, for the checks of    *)
(* C1, C2, C3, C4 and C10.                                                 *)

(* The total starts again at 0 with the first point of each file. *)
AccumulatePointResetPerDay(st, d, point, use_imperial) ==
    LET n  == Len(st.elevation_points)
        td == IF st.prev_point # <<>> /\ st.elevation_points[n].day = d
              THEN st.total_distance
                   + MetresToKm(distance_2d(point, st.prev_point[1]))
              ELSE 0
    IN  [total_distance   |-> td,
         prev_point       |-> <<point>>,
         elevation_points |-> Append(st.elevation_points,
                                     ElevationPoint(d, td, point.elevation))]

(* The step from the last point of a file to the first of the next is     *)
(* not added.                                                              *)
AccumulatePointNoBoundaryStep(st, d, point, use_imperial) ==
    LET n  == Len(st.elevation_points)
        td == IF st.prev_point # <<>> /\ st.elevation_points[n].day = d
              THEN st.total_distance
                   + MetresToKm(distance_2d(point, st.prev_point[1]))
              ELSE st.total_distance
    IN  [total_distance   |-> td,
         prev_point       |-> <<point>>,
         elevation_points |-> Append(st.elevation_points,
                                     ElevationPoint(d, td, point.elevation))]

(* The first point is measured from the origin of the coordinates. *)
AccumulatePointFromOrigin(st, d, point, use_imperial) ==
    LET td == IF st.prev_point # <<>>
              THEN st.total_distance
                   + MetresToKm(distance_2d(point, st.prev_point[1]))
              ELSE st.total_distance + MetresToKm(Abs(point.pos))
    IN  [total_distance   |-> td,
         prev_point       |-> <<point>>,
         elevation_points |-> Append(st.elevation_points,
                                     ElevationPoint(d, td, point.elevation))]

(* Days are numbered from 1. *)
AccumulatePointOneBasedDay(st, d, point, use_imperial) ==
    LET td == IF st.prev_point # <<>>
              THEN st.total_distance
                   + MetresToKm(distance_2d(point, st.prev_point[1]))
              ELSE st.total_distance
    IN  [total_distance   |-> td,
         prev_point       |-> <<point>>,
         elevation_points |-> Append(st.elevation_points,
                                     ElevationPoint(d + 1, td, point.elevation))]

(* The elevation is stored in feet when use_imperial is set. *)
AccumulatePointImperial(st, d, point, use_imperial) ==
    LET td == IF st.prev_point # <<>>
              THEN st.total_distance
                   + MetresToKm(distance_2d(point, st.prev_point[1]))
              ELSE st.total_distance
        ele == IF use_imperial
               THEN (point.elevation * MetresToFeet) \div FeetDen
               ELSE point.elevation
    IN  [total_distance   |-> td,
         prev_point       |-> <<point>>,
         elevation_points |-> Append(st.elevation_points,
                                     ElevationPoint(d, td, ele))]

(* Lines 40-45: one iteration of the innermost loop.  st is the record of  *)
(* the three locals total_distance, prev_point, elevation_points.          *)
AccumulatePoint(st, d, point, use_imperial) ==
    LET td == IF st.prev_point # <<>>
              THEN st.total_distance
                   + MetresToKm(distance_2d(point, st.prev_point[1]))
              ELSE st.total_distance
    IN  [total_distance   |-> td,
         prev_point       |-> <<point>>,
         elevation_points |-> Append(st.elevation_points,
                                     ElevationPoint(d, td, point.elevation))]

RECURSIVE AccumulateSegment(_, _, _, _)
AccumulateSegment(st, d, points, use_imperial) ==
    IF points = <<>> THEN st
    ELSE AccumulateSegment(AccumulatePoint(st, d, Head(points), use_imperial),
                           d, Tail(points), use_imperial)

RECURSIVE AccumulateTrack(_, _, _, _)
AccumulateTrack(st, d, segments, use_imperial) ==
    IF segments = <<>> THEN st
    ELSE AccumulateTrack(AccumulateSegment(st, d, Head(segments), use_imperial),
                         d, Tail(segments), use_imperial)

RECURSIVE AccumulateGpx(_, _, _, _)
AccumulateGpx(st, d, tracks, use_imperial) ==
    IF tracks = <<>> THEN st
    ELSE AccumulateGpx(AccumulateTrack(st, d, Head(tracks), use_imperial),
                       d, Tail(tracks), use_imperial)

----------------------------------------------------------------------------
Init ==
    /\ gpx_files \in SeqsUpTo(FileStates, 1..MaxFiles)
    /\ imperial \in BOOLEAN
    /\ pc = "verify"
    /\ day = 0
    /\ total_distance = 0
    /\ prev_point = <<>>
    /\ elevation_points = <<>>
    /\ epoints = <<>>
    /\ daily_points = <<>>
    /\ lut_size = -1
    /\ plotted = <<>>
    /\ exit_status = -1
    /\ raised = "none"
    /\ reported = -1
    /\ opened = <<>>
    /\ decoded = <<>>

(* Lines 61-65: the existence loop; it returns 1 at the first missing path *)
(* and otherwise falls through to the call of parse_gpx_files.            *)
MissingFilesFirstOnly(files) == {i \in {1} : files[i] = "missing"}

MissingFiles(files) == {i \in 1..Len(files) : files[i] = "missing"}

Min(S) == CHOOSE x \in S : \A y \in S : x <= y

VerifyFiles ==
    /\ pc = "verify"
    /\ IF MissingFiles(gpx_files) # {}
       THEN /\ reported' = Min(MissingFiles(gpx_files)) - 1
            /\ exit_status' = 1
            /\ pc' = "exit"
       ELSE /\ pc' = "parse"
            /\ UNCHANGED <<reported, exit_status>>
    /\ UNCHANGED <<gpx_files, imperial, day, total_distance, prev_point,
                   elevation_points, epoints, daily_points, lut_size, plotted,
                   raised, opened, decoded>>

(* Lines 33-45: one iteration of the loop over the files.  open() or       *)
(* gpxpy.parse() raise on a path that is missing or is no GPX document,    *)
(* and nothing catches it; otherwise the document read is any document    *)
(* that keeps the run within MaxPoints.                                    *)
OpenRaisesNever(file_state) == FALSE

OpenRaises(file_state) == file_state # "gpx"

ParseFile ==
    /\ pc = "parse"
    /\ day < Len(gpx_files)
    /\ opened' = Append(opened, day)
    /\ IF OpenRaises(gpx_files[day + 1])
       THEN /\ raised' = IF gpx_files[day + 1] = "missing"
                         THEN "FileNotFoundError" ELSE "DecodeError"
            /\ pc' = "exit"
            /\ UNCHANGED <<day, total_distance, prev_point, elevation_points,
                           decoded>>
       ELSE \E gpx \in GpxDocsUpTo[MaxPoints - Len(elevation_points)] :
              LET st == AccumulateGpx(
                            [total_distance   |-> total_distance,
                             prev_point       |-> prev_point,
                             elevation_points |-> elevation_points],
                            day, gpx, imperial)
              IN  /\ total_distance' = st.total_distance
                  /\ prev_point' = st.prev_point
                  /\ elevation_points' = st.elevation_points
                  /\ decoded' = Append(decoded, FilePoints(gpx))
                  /\ day' = day + 1
                  /\ UNCHANGED <<raised, pc>>
    /\ UNCHANGED <<gpx_files, imperial, epoints, daily_points, lut_size,
                   plotted, exit_status, reported>>

(* Lines 73-76: one iteration of the grouping loop. *)
GroupStep(dp, ept) ==
    LET base == IF ept.day \in DOMAIN dp THEN dp
                ELSE [k \in DOMAIN dp \cup {ept.day} |->
                         IF k \in DOMAIN dp THEN dp[k] ELSE <<>>]
    IN  [base EXCEPT ![ept.day] = Append(@, ept)]

RECURSIVE GroupLoop(_, _)
GroupLoop(dp, epts) ==
    IF epts = <<>> THEN dp ELSE GroupLoop(GroupStep(dp, Head(epts)), Tail(epts))

(* Lines 47, 67, 72-76: parse_gpx_files returns its list, main groups it. *)
GroupByDay ==
    /\ pc = "parse"
    /\ day = Len(gpx_files)
    /\ epoints' = elevation_points
    /\ daily_points' = GroupLoop(<<>>, elevation_points)
    /\ pc' = "plot"
    /\ UNCHANGED <<gpx_files, imperial, day, total_distance, prev_point,
                   elevation_points, lut_size, plotted, exit_status, raised,
                   reported, opened, decoded>>

Max(S) == CHOOSE x \in S : \A y \in S : x >= y

RECURSIVE sortedDescending(_)
sortedDescending(keys) ==
    IF keys = {} THEN <<>>
    ELSE <<Max(keys)>> \o sortedDescending(keys \ {Max(keys)})

(* Line 86: sorted(daily_points.keys()) *)
RECURSIVE sorted(_)
sorted(keys) ==
    IF keys = {} THEN <<>> ELSE <<Min(keys)>> \o sorted(keys \ {Min(keys)})

Rat(n) == [num |-> n, den |-> 1]

Times(r, n, d) == [num |-> r.num * n, den |-> r.den * d]

RECURSIVE Distances(_)
Distances(epts) ==
    IF epts = <<>> THEN <<>>
    ELSE <<Rat(Head(epts).distance)>> \o Distances(Tail(epts))

RECURSIVE Elevations(_)
Elevations(epts) ==
    IF epts = <<>> THEN <<>>
    ELSE <<Rat(Head(epts).elevation)>> \o Elevations(Tail(epts))

RECURSIVE Rescale(_, _, _)
Rescale(series, n, d) ==
    IF series = <<>> THEN <<>>
    ELSE <<Times(Head(series), n, d)>> \o Rescale(Tail(series), n, d)

(* Lines 87-97: one iteration of the render loop.  color is the argument  *)
(* given to colors(); text is <<x_points[0]>>, or <<>> when x_points is   *)
(* empty and x_points[0] raises IndexError.                                *)
RenderDay(dp, d, use_imperial) ==
    LET x0 == Distances(dp[d])
        y0 == Elevations(dp[d])
        x_points == IF use_imperial THEN Rescale(x0, KmToMiles, MilesDen) ELSE x0
        y_points == IF use_imperial THEN Rescale(y0, MetresToFeet, FeetDen) ELSE y0
    IN  [day      |-> d,
         color    |-> d,
         x_points |-> x_points,
         y_points |-> y_points,
         text     |-> IF x_points # <<>> THEN <<x_points[1]>> ELSE <<>>]

RECURSIVE RenderLoop(_, _, _, _)
RenderLoop(order, dp, use_imperial, done) ==
    IF order = <<>> THEN [plotted |-> done, raised |-> "none"]
    ELSE LET r == RenderDay(dp, Head(order), use_imperial)
         IN  IF r.text = <<>>
             THEN [plotted |-> Append(done, r), raised |-> "IndexError"]
             ELSE RenderLoop(Tail(order), dp, use_imperial, Append(done, r))

(* Line 81: the number of entries the colour ramp is built with. *)
RampSize(dp) == Cardinality(DOMAIN dp)

(* Line 92: the ramp entry colors(i) resolves to: an index past the end   *)
(* is clipped to the ramp's last colour.                                   *)
RampEntry(i, n) == IF i < n THEN i ELSE n - 1

(* Lines 79-108: the figure, the colour ramp, the render loop, return 0. *)
Plot ==
    /\ pc = "plot"
    /\ lut_size' = RampSize(daily_points)
    /\ LET res == RenderLoop(sorted(DOMAIN daily_points), daily_points,
                             imperial, <<>>)
       IN  /\ plotted' = res.plotted
           /\ raised' = res.raised
           /\ exit_status' = IF res.raised = "none" THEN 0 ELSE exit_status
    /\ pc' = "exit"
    /\ UNCHANGED <<gpx_files, imperial, day, total_distance, prev_point,
                   elevation_points, epoints, daily_points, reported, opened,
                   decoded>>

Next == VerifyFiles \/ ParseFile \/ GroupByDay \/ Plot

Spec == Init /\ [][Next]_vars

----------------------------------------------------------------------------
(* Vocabulary of the properties. *)

(* parse_gpx_files has returned, and epoints holds its result. *)
Returned == pc = "plot" \/ lut_size >= 0

(* The render loop has run. *)
Rendered == pc = "exit" /\ lut_size >= 0

(* The points of all decoded files, in reading order. *)
AllPoints == Concat(decoded)

(* The sub-sequence of the points of day d. *)
OfDay(epts, d) == LET IsDay(e) == e.day = d IN SelectSeq(epts, IsDay)

RECURSIVE ElevationsOf(_)
ElevationsOf(s) ==
    IF s = <<>> THEN <<>> ELSE <<Head(s).elevation>> \o ElevationsOf(Tail(s))

(* Path length in km over the first i points of pts, by its definition. *)
RECURSIVE PathKm(_, _)
PathKm(pts, i) ==
    IF i <= 1 THEN 0
    ELSE PathKm(pts, i - 1) + MetresToKm(distance_2d(pts[i], pts[i - 1]))

(* a <= b for two values of one series, which share their denominator. *)
RatLeq(a, b) == a.den = b.den /\ a.num <= b.num

SomeMissing == \E i \in 1..Len(gpx_files) : gpx_files[i] = "missing"

SomeUndecodable == \E i \in 1..Len(gpx_files) : gpx_files[i] = "undecodable"

FirstUndecodable ==
    Min({i \in 1..Len(gpx_files) : gpx_files[i] = "undecodable"})

----------------------------------------------------------------------------
(* C1. Monotonicity: in the list parse_gpx_files returns, the distance of  *)
(* every ElevationPoint is at least the distance of the one before it,     *)
(* also when the two belong to different days.                             *)
DistanceMonotone ==
    \A i \in 1..(Len(epoints) - 1) :
        epoints[i + 1].distance >= epoints[i].distance

(* A returned list that grows in distance across a day boundary. *)
DistanceGrowsAcrossDays ==
    /\ Returned
    /\ \E i \in 1..(Len(epoints) - 1) :
          /\ epoints[i + 1].day # epoints[i].day
          /\ epoints[i + 1].distance > epoints[i].distance
          /\ epoints[i].distance > 0

(* C2. Boundary continuity: the first point of a day that follows a       *)
(* non-empty day has the distance of the last point before it plus the    *)
(* 2D distance in km between the two, however many empty files lie        *)
(* between them.                                                           *)
BoundaryContinuity ==
    Returned =>
      /\ Len(AllPoints) = Len(epoints)
      /\ \A i \in 2..Len(epoints) :
            epoints[i].day # epoints[i - 1].day =>
                epoints[i].distance =
                    epoints[i - 1].distance
                    + MetresToKm(distance_2d(AllPoints[i], AllPoints[i - 1]))

(* A day that starts 0.5 km after the last point, an empty file between. *)
BoundaryOverEmptyDay ==
    /\ Returned
    /\ \E i \in 2..Len(epoints) :
          /\ epoints[i].day >= epoints[i - 1].day + 2
          /\ epoints[i].distance > epoints[i - 1].distance
          /\ epoints[i - 1].distance > 0

(* C3. Zero-state: the first ElevationPoint emitted has distance 0,       *)
(* whichever file it comes from and whatever its coordinates.             *)
FirstPointAtZero ==
    /\ elevation_points # <<>> => elevation_points[1].distance = 0
    /\ epoints # <<>> => epoints[1].distance = 0

(* The first point comes from the third file and lies off the origin. *)
FirstPointAfterEmptyFiles ==
    /\ Returned
    /\ epoints # <<>>
    /\ epoints[1].day = 2
    /\ AllPoints[1].pos > 0

(* C4. Day tagging: every ElevationPoint carries the zero-based position  *)
(* of its file, and the points of day d are exactly the points of file d, *)
(* in the order of the file.                                               *)
DayTagging ==
    Returned =>
      /\ Len(decoded) = Len(gpx_files)
      /\ \A i \in 1..Len(epoints) : epoints[i].day \in 0..(Len(gpx_files) - 1)
      /\ \A d \in 0..(Len(gpx_files) - 1) :
            ElevationsOf(OfDay(epoints, d)) = ElevationsOf(decoded[d + 1])

(* The second file holds two points of different elevations. *)
SecondDayTwoElevations ==
    /\ Returned
    /\ Len(decoded) >= 2
    /\ Len(decoded[2]) = 2
    /\ decoded[2][1].elevation # decoded[2][2].elevation
    /\ Len(OfDay(epoints, 1)) = 2

(* C5. Missing file: when a path does not exist main prints the error and *)
(* returns 1; no file is opened or decoded and nothing is plotted.        *)
MissingFileAborts ==
    SomeMissing =>
      /\ pc \in {"verify", "exit"}
      /\ opened = <<>>
      /\ decoded = <<>>
      /\ lut_size = -1
      /\ plotted = <<>>
      /\ raised = "none"
      /\ pc = "exit" =>
            /\ exit_status = 1
            /\ reported >= 0
            /\ gpx_files[reported + 1] = "missing"

(* main returned 1 for a list whose first file exists and last does not. *)
MissingLastFileReported ==
    /\ pc = "exit"
    /\ exit_status = 1
    /\ Len(gpx_files) >= 2
    /\ gpx_files[1] = "gpx"
    /\ gpx_files[Len(gpx_files)] = "missing"
    /\ reported = Len(gpx_files) - 1

(* C6. Decode error: when a file exists but does not decode, the run ends *)
(* at that file with the exception: no later file is opened, no colour    *)
(* ramp is built and nothing is plotted, for no day.                      *)
DecodeErrorAborts ==
    (SomeUndecodable /\ ~SomeMissing) =>
      /\ epoints = <<>>
      /\ lut_size = -1
      /\ plotted = <<>>
      /\ exit_status = -1
      /\ pc \in {"verify", "parse", "exit"}
      /\ \A j \in 1..Len(opened) : opened[j] + 1 <= FirstUndecodable
      /\ pc = "exit" =>
            /\ raised = "DecodeError"
            /\ Len(opened) = FirstUndecodable
            /\ Len(decoded) = FirstUndecodable - 1

(* The second of three files failed after the first gave points. *)
DecodeErrorAfterGoodFile ==
    /\ pc = "exit"
    /\ raised = "DecodeError"
    /\ Len(gpx_files) = 3
    /\ FirstUndecodable = 2
    /\ elevation_points # <<>>
    /\ opened = <<0, 1>>

(* C7. Empty-day tolerance: a file with zero points gives no              *)
(* ElevationPoint, its day is a key of the grouping with an empty list,   *)
(* the render loop reads x_points[0] only of a non-empty series, and the  *)
(* run returns 0.                                                          *)
EmptyDayIsEmptyPartition ==
    Returned =>
      /\ \A d \in 0..(Len(decoded) - 1) :
            decoded[d + 1] = <<>> =>
              /\ OfDay(epoints, d) = <<>>
              /\ d \in DOMAIN daily_points
              /\ daily_points[d] = <<>>
      /\ \A i \in 1..Len(plotted) : plotted[i].x_points # <<>>
      /\ raised = "none"
      /\ Rendered => exit_status = 0

(* What the code does keep of C7: a file with zero points gives no        *)
(* ElevationPoint and no key of the grouping, x_points[0] is read only of *)
(* a non-empty series, and the run returns 0.                              *)
EmptyDayNeverFaults ==
    Returned =>
      /\ \A d \in 0..(Len(decoded) - 1) :
            decoded[d + 1] = <<>> =>
              /\ OfDay(epoints, d) = <<>>
              /\ d \notin DOMAIN daily_points
      /\ \A i \in 1..Len(plotted) :
            /\ plotted[i].x_points # <<>>
            /\ plotted[i].text = <<plotted[i].x_points[1]>>
      /\ raised = "none"
      /\ Rendered => exit_status = 0

(* A run over empty files only has returned 0. *)
AllFilesEmptyReturnsZero ==
    /\ Rendered
    /\ Len(decoded) >= 2
    /\ \A d \in 1..Len(decoded) : decoded[d] = <<>>
    /\ exit_status = 0

(* C8. Day colour: the index given to the colour ramp for a rendered day  *)
(* is below the number of entries the ramp was built with, and no two     *)
(* rendered days resolve to the same entry.                               *)
DayColourInRamp ==
    Rendered =>
      /\ \A i \in 1..Len(plotted) :
            /\ plotted[i].color = plotted[i].day
            /\ plotted[i].color < lut_size
      /\ \A i, j \in 1..Len(plotted) :
            i # j => RampEntry(plotted[i].color, lut_size)
                     # RampEntry(plotted[j].color, lut_size)

(* What the code does keep of C8 when no decoded file is empty. *)
DayColourInRampNoEmptyDay ==
    (Rendered /\ \A d \in 1..Len(decoded) : decoded[d] # <<>>) =>
      /\ lut_size = Len(gpx_files)
      /\ \A i \in 1..Len(plotted) :
            /\ plotted[i].color = plotted[i].day
            /\ plotted[i].color < lut_size
      /\ \A i, j \in 1..Len(plotted) :
            i # j => RampEntry(plotted[i].color, lut_size)
                     # RampEntry(plotted[j].color, lut_size)

(* C9. Day grouping: each key of the grouping maps to the points of that  *)
(* day in their order; the render loop visits the keys in strictly        *)
(* ascending order, the groups in that order concatenate to the list      *)
(* parse_gpx_files returned, and the x of a day's label is the smallest x *)
(* of the day's series.                                                    *)
RECURSIVE GroupsInOrder(_, _)
GroupsInOrder(done, dp) ==
    IF done = <<>> THEN <<>>
    ELSE dp[Head(done).day] \o GroupsInOrder(Tail(done), dp)

DayGrouping ==
    Returned =>
      /\ \A d \in DOMAIN daily_points :
            /\ daily_points[d] # <<>>
            /\ daily_points[d] = OfDay(epoints, d)
      /\ \A i \in 1..Len(epoints) : epoints[i].day \in DOMAIN daily_points
      /\ Rendered =>
            /\ \A i \in 1..(Len(plotted) - 1) :
                  plotted[i].day < plotted[i + 1].day
            /\ {plotted[i].day : i \in 1..Len(plotted)} = DOMAIN daily_points
            /\ GroupsInOrder(plotted, daily_points) = epoints
            /\ \A i \in 1..Len(plotted) :
                  /\ Len(plotted[i].text) = 1
                  /\ \A k \in 1..Len(plotted[i].x_points) :
                        RatLeq(plotted[i].text[1], plotted[i].x_points[k])

(* Two days are rendered, one of them with two points 0.5 km apart. *)
TwoDaysRendered ==
    /\ Rendered
    /\ Len(plotted) >= 2
    /\ \E i \in 1..Len(plotted) :
          /\ Len(plotted[i].x_points) = 2
          /\ ~RatLeq(plotted[i].x_points[2], plotted[i].x_points[1])

====
